---- MODULE Spec2Model ----
(***************************************************************************)
(* Contribution step state machine (makeContribution) and the resumable    *)
(* multi-part upload (multiPartUpload) of the phase2cli package, with the   *)
(* participant document held by the checkpoint authority.                  *)
(***************************************************************************)
EXTENDS Integers, Sequences, FiniteSets, TLC

(* ---------------------------------------------------------------------- *)
(* Bounds of the model.                                                    *)
(* ---------------------------------------------------------------------- *)
\* Number of makeContribution invocations explored in one behaviour.
MaxRuns == 3
\* Largest artifact size (in bytes) explored.
MaxFileSize == 5
\* Fixed per-part byte size used to split the artifact.
ChunkSize == 2

(* ---------------------------------------------------------------------- *)
(* ParticipantContributionStep, in the order of the contribution flow.     *)
(* ---------------------------------------------------------------------- *)
NOT_STARTED == 0
DOWNLOADING == 1
COMPUTING == 2
UPLOADING == 3
VERIFYING == 4
COMPLETED == 5

ParticipantContributionStep ==
    {NOT_STARTED, DOWNLOADING, COMPUTING, UPLOADING, VERIFYING, COMPLETED}

\* No multi-part upload identifier (the empty string / undefined of the code).
NoUploadId == 0

\* tempContributionData when the participant document has none.
NoTempData == [present |-> FALSE, uploadId |-> NoUploadId, chunks |-> <<>>]

\* newParticipantData when the caller passes none.
NoParticipantData ==
    [present |-> FALSE, contributionStep |-> NOT_STARTED, tempContributionData |-> NoTempData]

VARIABLES
    ckStep,                 \* persisted contributionStep of the participant document
    ckTemp,                 \* persisted tempContributionData of the participant document
    pc,                     \* position of the current makeContribution invocation
    finalize,               \* the finalize argument of the invocation
    newParticipantData,     \* the participant data argument of the invocation
    configured,             \* CONFIG_PRESIGNED_URL_EXPIRATION_IN_SECONDS is set
    tempContributionData,   \* the argument multiPartUpload received
    uploadIdZkey,           \* multiPartUpload local: the upload identifier in use
    partNumbersAndETags,    \* multiPartUpload/uploadParts local: recorded chunks
    verdict,                \* result of computeVerification: "none", "valid", "invalid"
    matchContributionHash,  \* hash match in the transcript: "unread", "matched", "none"
    console,                \* lines printed by step 5 of the invocation
    utility,                \* application of a utility function: argument and result
    pool,                   \* workers transmitting the parts in parallel
    log,                    \* remote calls made by the current invocation, in order
    fileSize,               \* size of the artifact to upload
    nextUploadId,           \* next identifier the storage authority hands out
    runs,                   \* invocations started so far
    crashed,                \* the previous invocation ended in a crash
    recovered,              \* the timeout recovery has reset the participant
    artifact,               \* version of the local artifact, per finalize flag
    sessions,               \* upload identifiers opened by non-finalize invocations
    finalized,              \* upload identifiers whose upload has been completed
    attempt                 \* calls that have succeeded in the attempt, per finalize flag

vars == <<ckStep, ckTemp, pc, finalize, newParticipantData, configured,
          tempContributionData, uploadIdZkey, partNumbersAndETags, verdict,
          matchContributionHash, console, log, fileSize, nextUploadId, runs, crashed, recovered,
          artifact, sessions, finalized, attempt, utility, pool>>

(* ---------------------------------------------------------------------- *)
(* Helpers.                                                                *)
(* ---------------------------------------------------------------------- *)
\* Every call of makeContribution and multiPartUpload is awaited: the
\* invocation goes on when the call has completed or failed.
AwaitedButProgress(op) == op # "progress"
Awaited(op) == TRUE

\* The logical time at which the invocation goes on after the calls made so
\* far: the end of the last call when it is awaited, its start when it is not.
Now(calls) ==
    IF calls = <<>> THEN 0
    ELSE LET last == calls[Len(calls)]
         IN  IF Awaited(last.op) THEN last.end ELSE last.start

\* A remote call: operation, whether it succeeded, what it was about (the
\* step requested for "progress", the upload identifier for the upload
\* calls), the part number (the number of parts for "authorize"), for
\* "finalize" the list of parts handed over, and the logical times at which
\* the call starts and at which it completes or fails.
Call(op, ok, id, part) ==
    [op |-> op, ok |-> ok, id |-> id, part |-> part, parts |-> <<>>,
     start |-> Now(log), end |-> Now(log) + 1]

\* Number of parts of a file of the given size.
NumberOfPartsCeil(size) == (size + ChunkSize - 1) \div ChunkSize
NumberOfPartsFloor(size) == IF size = 0 THEN 1 ELSE size \div ChunkSize + 1
NumberOfParts(size) ==
    IF size = 0 THEN 1 ELSE (size + ChunkSize - 1) \div ChunkSize

\* Completion token (ETag) the storage returns for a part: it identifies the
\* bytes transmitted, that is the artifact version and the part.
ETagOf(version, partNumber) == 100 * version + partNumber

\* What the checkpoint authority does on progressToNextContributionStep.
progressToNextContributionStep(step) ==
    IF step < COMPLETED THEN step + 1 ELSE step

\* An awaited call that rejects, or showError(..., true), ends the invocation.
AfterAwaitM(ok, next) == next
AfterAwait(ok, next) == IF ok THEN next ELSE "failed"

\* Faults (rejected calls, crashes) are explored while another invocation
\* can still follow.
CanFault == runs < MaxRuns
Outcomes == IF CanFault THEN BOOLEAN ELSE {TRUE}

(* ---------------------------------------------------------------------- *)
(* The conditions guarding the four steps of makeContribution.             *)
(* ---------------------------------------------------------------------- *)
StepIs(d, step) == d.present /\ d.contributionStep = step

DownloadGateM(f, d) == StepIs(d, DOWNLOADING)
DownloadGate(f, d) == f \/ StepIs(d, DOWNLOADING)

ComputeGateM(f, d) == f \/ StepIs(d, COMPUTING)
ComputeGateAtUploading(f, d) ==
    f \/ StepIs(d, DOWNLOADING) \/ StepIs(d, COMPUTING) \/ StepIs(d, UPLOADING)
ComputeGate(f, d) == f \/ StepIs(d, DOWNLOADING) \/ StepIs(d, COMPUTING)

UploadGateM(f, d) ==
    f \/ StepIs(d, DOWNLOADING) \/ StepIs(d, COMPUTING) \/ StepIs(d, UPLOADING)
        \/ StepIs(d, VERIFYING)
UploadGate(f, d) ==
    f \/ StepIs(d, DOWNLOADING) \/ StepIs(d, COMPUTING) \/ StepIs(d, UPLOADING)

VerifyGateM(f, d) ==
    f \/ StepIs(d, COMPUTING) \/ StepIs(d, UPLOADING) \/ StepIs(d, VERIFYING)
VerifyGateUnlessNotStarted(f, d) == f \/ ~StepIs(d, NOT_STARTED)
VerifyGate(f, d) ==
    f \/ StepIs(d, DOWNLOADING) \/ StepIs(d, COMPUTING) \/ StepIs(d, UPLOADING)
        \/ StepIs(d, VERIFYING)

\* "Make the step if not finalizing."
StepProgressWantedAlways(f) == TRUE
StepProgressWantedNever(f) == FALSE
StepProgressWanted(f) == ~f

\* multiPartUpload resumes when it is given temporary data with an uploadId.
CanResumeM(t) == t.present
CanResume(t) == t.present /\ t.uploadId # NoUploadId

(* ---------------------------------------------------------------------- *)
(* Initial state: the participant has been admitted to a circuit.          *)
(* ---------------------------------------------------------------------- *)
\* No utility function is being applied.
NoUtility == [fn |-> "none", arg |-> 0, done |-> FALSE, ret |-> 0]

ContributionInit ==
    /\ ckStep \in {NOT_STARTED, DOWNLOADING, COMPLETED}
    /\ ckTemp \in {NoTempData, [present |-> TRUE, uploadId |-> NoUploadId, chunks |-> <<>>]}
    /\ pc = "idle"
    /\ finalize = FALSE
    /\ newParticipantData = NoParticipantData
    /\ configured = TRUE
    /\ tempContributionData = NoTempData
    /\ uploadIdZkey = NoUploadId
    /\ partNumbersAndETags = <<>>
    /\ verdict = "none"
    /\ matchContributionHash = "unread"
    /\ console = <<>>
    /\ log = <<>>
    /\ fileSize \in 0..MaxFileSize
    /\ nextUploadId = 1
    /\ runs = 0
    /\ crashed = FALSE
    /\ recovered = FALSE
    /\ artifact = [f \in BOOLEAN |-> 0]
    /\ sessions = {}
    /\ finalized = {}
    /\ attempt = [f \in BOOLEAN |-> {}]

\* No pool of workers: the parts are transmitted one after the other.
NoPool == [active |-> FALSE, clock |-> 0, workers |-> <<>>]

Init ==
    /\ utility = NoUtility
    /\ pool = NoPool
    /\ ContributionInit

ckVars == <<ckStep, ckTemp>>
uploadLocals == <<tempContributionData, uploadIdZkey, partNumbersAndETags>>
runArgs == <<finalize, newParticipantData, configured>>
ghosts == <<crashed, recovered>>
history == <<artifact, sessions, finalized, attempt>>
aside == <<utility, pool>>

(* ---------------------------------------------------------------------- *)
(* makeContribution.                                                       *)
(* ---------------------------------------------------------------------- *)
\* The caller invokes makeContribution with the participant document it has
\* just read (or with none), in a process whose environment may lack the
\* pre-signed url expiration.
StartRun(f, withData, conf) ==
    /\ pc = "idle"
    /\ runs < MaxRuns
    /\ runs' = runs + 1
    /\ finalize' = f
    /\ newParticipantData' =
         IF withData
         THEN [present |-> TRUE, contributionStep |-> ckStep, tempContributionData |-> ckTemp]
         ELSE NoParticipantData
    /\ configured' = conf
    /\ tempContributionData' = NoTempData
    /\ uploadIdZkey' = NoUploadId
    /\ partNumbersAndETags' = <<>>
    /\ verdict' = "none"
    /\ matchContributionHash' = "unread"
    /\ console' = <<>>
    /\ log' = <<>>
    /\ pc' = "download"
    /\ attempt' = IF f THEN [attempt EXCEPT ![TRUE] = {}] ELSE attempt
    /\ UNCHANGED <<ckStep, ckTemp, fileSize, aside, nextUploadId, ghosts, artifact,
                   sessions, finalized>>

\* makeContributionStepProgress: ask the authority for the next step.
StepProgressCallsRecovery(at, next) ==
    /\ pc = at
    /\ \E ok \in Outcomes :
         /\ log' = Append(log, Call("progress", ok, NOT_STARTED, 0))
         /\ ckStep' = IF ok THEN NOT_STARTED ELSE ckStep
         /\ pc' = AfterAwait(ok, next)
    /\ UNCHANGED <<ckTemp, runArgs, uploadLocals, verdict, matchContributionHash, console, fileSize, aside, nextUploadId, runs, ghosts, history>>

makeContributionStepProgress(at, next) ==
    /\ pc = at
    /\ \E ok \in Outcomes :
         /\ log' = Append(log, Call("progress", ok, progressToNextContributionStep(ckStep), 0))
         /\ ckStep' = IF ok THEN progressToNextContributionStep(ckStep) ELSE ckStep
         /\ pc' = AfterAwait(ok, next)
    /\ UNCHANGED <<ckTemp, runArgs, uploadLocals, verdict, matchContributionHash, console, fileSize, aside, nextUploadId, runs, ghosts, history>>

\* 1. Download last contribution.
DownloadStep ==
    /\ pc = "download"
    /\ IF DownloadGate(finalize, newParticipantData)
       THEN \E ok \in Outcomes :
              /\ log' = Append(log, Call("download", ok, 0, 0))
              /\ attempt' = IF ok THEN [attempt EXCEPT ![finalize] = @ \cup {"download"}]
                                   ELSE attempt
              /\ pc' = AfterAwait(ok, IF StepProgressWanted(finalize)
                                      THEN "progress_computation" ELSE "compute")
       ELSE /\ pc' = "compute"
            /\ UNCHANGED <<log, attempt>>
    /\ UNCHANGED <<ckVars, runArgs, uploadLocals, verdict, matchContributionHash, console, fileSize, aside, nextUploadId, runs, ghosts,
                   artifact, sessions, finalized>>

\* 2.A Compute the new contribution.
ComputeStep ==
    /\ pc = "compute"
    /\ IF ComputeGate(finalize, newParticipantData)
       THEN \E ok \in Outcomes :
              /\ log' = Append(log, Call("compute", ok, 0, 0))
              /\ artifact' = IF ok THEN [artifact EXCEPT ![finalize] = @ + 1]
                                    ELSE artifact
              /\ attempt' = IF ok THEN [attempt EXCEPT ![finalize] = @ \cup {"compute"}]
                                   ELSE attempt
              /\ pc' = AfterAwait(ok, "store_hash")
       ELSE /\ pc' = "upload"
            /\ UNCHANGED <<log, artifact, attempt>>
    /\ UNCHANGED <<ckVars, runArgs, uploadLocals, verdict, matchContributionHash, console, fileSize, aside, nextUploadId, runs,
                   ghosts, sessions, finalized>>

\* A transcript without a contribution hash is a fatal error.
HashMatchRequiredM(match) == TRUE
HashMatchRequired(match) == match

\* 2.B Match the contribution hash in the transcript and store time and hash.
StoreTimeAndHashStep ==
    /\ pc = "store_hash"
    /\ \E match \in Outcomes :
         /\ matchContributionHash' = IF match THEN "matched" ELSE "none"
         /\ IF ~HashMatchRequired(match)
            THEN /\ pc' = "failed"
                 /\ UNCHANGED <<log, attempt>>
            ELSE \E ok \in Outcomes :
                   /\ log' = Append(log, Call("storeTimeAndHash", ok, 0, 0))
                   /\ attempt' = IF ok THEN [attempt EXCEPT
                                               ![finalize] = @ \cup {"storeTimeAndHash"}]
                                        ELSE attempt
                   /\ pc' = AfterAwait(ok, IF StepProgressWanted(finalize)
                                           THEN "progress_upload" ELSE "upload")
    /\ UNCHANGED <<ckVars, runArgs, uploadLocals, verdict, console, fileSize, aside, nextUploadId,
                   runs, ghosts, artifact, sessions, finalized>>

(* ---------------------------------------------------------------------- *)
(* multiPartUpload, as called by step 3 of makeContribution.               *)
(* ---------------------------------------------------------------------- *)
\* The temporary-store cloud functions are handed over only when not
\* finalizing.
StoreCFsSuppliedM(f) == FALSE
StoreCFsSupplied(f) == ~f

\* The temporary data handed to multiPartUpload.
TempDataArgumentAlways(f, d) ==
    IF d.present THEN d.tempContributionData ELSE NoTempData
TempDataArgument(f, d) ==
    IF ~f /\ d.present THEN d.tempContributionData ELSE NoTempData

\* Part numbers already recorded in a list of chunks.
PartNumbers(chunks) == {chunks[i].PartNumber : i \in 1..Len(chunks)}

\* Parts of the file that have no recorded chunk yet.
MissingParts(chunks) == (1..NumberOfParts(fileSize)) \ PartNumbers(chunks)

Min(S) == CHOOSE x \in S : \A y \in S : x <= y

\* The chunks read from the temporary data when the upload is resumed.
AlreadyUploadedChunksM(t) == <<>>
AlreadyUploadedChunks(t) == t.chunks

\* The parts handed to closeMultiPartUpload: the list returned by uploadParts.
FinalizeArgumentM(returned, already) == already
FinalizeArgument(returned, already) == returned

\* Configuration checks: the pre-signed url expiration must be set.
ConfigurationOkM(conf) == TRUE
ConfigurationOk(conf) == conf

\* 3. Store file: enter multiPartUpload and run its configuration check.
UploadStep ==
    /\ pc = "upload"
    /\ IF UploadGate(finalize, newParticipantData)
       THEN /\ tempContributionData' = TempDataArgument(finalize, newParticipantData)
            /\ pc' = AfterAwait(ConfigurationOk(configured), "mpu_open")
       ELSE /\ pc' = "verify"
            /\ UNCHANGED tempContributionData
    /\ UNCHANGED <<ckVars, runArgs, uploadIdZkey, partNumbersAndETags, verdict, matchContributionHash, console, log,
                   fileSize, aside, nextUploadId, runs, ghosts, history>>

\* Start from scratch (openMultiPartUpload) or read the temporary data.
MultiPartOpen ==
    /\ pc = "mpu_open"
    /\ IF ~CanResume(tempContributionData)
       THEN \E ok \in Outcomes :
              /\ log' = Append(log, Call("open", ok, nextUploadId, 0))
              /\ uploadIdZkey' = IF ok THEN nextUploadId ELSE uploadIdZkey
              /\ nextUploadId' = nextUploadId + 1
              /\ sessions' = IF ok /\ ~finalize THEN sessions \cup {nextUploadId}
                                                ELSE sessions
              /\ pc' = AfterAwait(ok, IF StoreCFsSupplied(finalize)
                                      THEN "mpu_store_id" ELSE "mpu_urls")
              /\ UNCHANGED partNumbersAndETags
       ELSE /\ uploadIdZkey' = tempContributionData.uploadId
            /\ partNumbersAndETags' = AlreadyUploadedChunks(tempContributionData)
            /\ pc' = "mpu_urls"
            /\ UNCHANGED <<log, nextUploadId, sessions>>
    /\ UNCHANGED <<ckVars, runArgs, tempContributionData, verdict, matchContributionHash, console, fileSize, aside, runs, ghosts,
                   artifact, finalized, attempt>>

\* Store Multi-Part Upload ID after generation.
MultiPartStoreUploadId ==
    /\ pc = "mpu_store_id"
    /\ \E ok \in Outcomes :
         /\ log' = Append(log, Call("storeUploadId", ok, uploadIdZkey, 0))
         /\ ckTemp' = IF ok
                      THEN [present |-> TRUE, uploadId |-> uploadIdZkey, chunks |-> <<>>]
                      ELSE ckTemp
         /\ pc' = AfterAwait(ok, "mpu_urls")
    /\ UNCHANGED <<ckStep, runArgs, uploadLocals, verdict, matchContributionHash, console, fileSize, aside, nextUploadId, runs, ghosts, history>>

\* Step 2: getChunksAndPreSignedUrls, one call for the whole file.
MultiPartUrls ==
    /\ pc = "mpu_urls"
    /\ \E ok \in Outcomes :
         /\ log' = Append(log, Call("authorize", ok, uploadIdZkey, NumberOfParts(fileSize)))
         /\ pc' = AfterAwait(ok, "mpu_parts")
    /\ UNCHANGED <<ckVars, runArgs, uploadLocals, verdict, matchContributionHash, console, fileSize, aside, nextUploadId, runs, ghosts, history>>

\* Step 3: uploadParts transmits the next part that is not recorded yet, or
\* returns when every part is recorded.
MultiPartUploadPart ==
    /\ pc = "mpu_parts"
    /\ IF MissingParts(partNumbersAndETags) # {}
       THEN LET k == Min(MissingParts(partNumbersAndETags)) IN
            \E ok \in Outcomes :
              /\ log' = Append(log, Call("transmit", ok, uploadIdZkey, k))
              /\ partNumbersAndETags' =
                   IF ok
                   THEN Append(partNumbersAndETags, [PartNumber |-> k, ETag |-> ETagOf(artifact[finalize], k)])
                   ELSE partNumbersAndETags
              /\ pc' = AfterAwait(ok, IF StoreCFsSupplied(finalize)
                                      THEN "mpu_store_chunk" ELSE "mpu_parts")
       ELSE /\ pc' = "mpu_close"
            /\ UNCHANGED <<log, partNumbersAndETags>>
    /\ UNCHANGED <<ckVars, runArgs, tempContributionData, uploadIdZkey, verdict, matchContributionHash, console,
                   fileSize, aside, nextUploadId, runs, ghosts, history>>

\* Temporary store of the chunk just uploaded, to enable a later resume.
MultiPartStoreChunk ==
    /\ pc = "mpu_store_chunk"
    /\ LET chunk == partNumbersAndETags[Len(partNumbersAndETags)] IN
       \E ok \in Outcomes :
         /\ log' = Append(log, Call("storeChunk", ok, uploadIdZkey, chunk.PartNumber))
         /\ ckTemp' = IF ok
                      THEN [ckTemp EXCEPT !.chunks = Append(@, chunk)]
                      ELSE ckTemp
         /\ pc' = AfterAwait(ok, "mpu_parts")
    /\ UNCHANGED <<ckStep, runArgs, uploadLocals, verdict, matchContributionHash, console, fileSize, aside, nextUploadId, runs, ghosts, history>>

\* The storage completes a multi-part upload only for a list whose part
\* numbers are 1, 2, ... in this order; any other list is rejected.
FinalizeAcceptedAny(parts) == TRUE
FinalizeAccepted(parts) == \A i \in DOMAIN parts : parts[i].PartNumber = i

\* The list closeMultiPartUpload is called with.
ClosingParts ==
    FinalizeArgument(partNumbersAndETags,
                     IF CanResume(tempContributionData)
                     THEN AlreadyUploadedChunks(tempContributionData)
                     ELSE <<>>)

\* Step 4: closeMultiPartUpload with the recorded parts.
MultiPartClose ==
    /\ pc = "mpu_close"
    /\ \E ok \in IF FinalizeAccepted(ClosingParts) THEN Outcomes ELSE {FALSE} :
         /\ log' = Append(log, [Call("finalize", ok, uploadIdZkey, 0)
                                  EXCEPT !.parts = ClosingParts])
         /\ finalized' = IF ok THEN finalized \cup {uploadIdZkey} ELSE finalized
         /\ attempt' = IF ok THEN [attempt EXCEPT ![finalize] = @ \cup {"finalize"}]
                              ELSE attempt
         /\ pc' = AfterAwait(ok, IF StepProgressWanted(finalize)
                                 THEN "progress_verification" ELSE "verify")
    /\ UNCHANGED <<ckVars, runArgs, uploadLocals, verdict, matchContributionHash, console, fileSize, aside, nextUploadId, runs,
                   ghosts, artifact, sessions>>

\* computeVerification returns when the cloud function has answered, whatever
\* the verdict in the answer.
VerificationOkM(r) == r = "valid"
VerificationOk(r) == r \in {"valid", "invalid"}

\* What step 5 prints for an answer: the verdict, the time the verification
\* took and the time the whole contribution took.
VerificationReport(r) ==
    <<IF r = "valid" THEN "VALID" ELSE "INVALID", "verification took", "contribution took">>

\* The verification is awaited once, outside of any loop or handler: a call
\* that is rejected, times out or gives no response ends the invocation.
AfterVerificationRetry(ok) == IF ok THEN "done" ELSE "verify"
AfterVerification(ok) == AfterAwait(ok, "done")

\* 5. Verify contribution (computeVerification).
VerifyStep ==
    /\ pc = "verify"
    /\ IF VerifyGate(finalize, newParticipantData)
       THEN \E r \in {"valid", "invalid"} \cup
                     (IF CanFault THEN {"rejected", "timeout", "noresponse"} ELSE {}) :
              LET ok == VerificationOk(r) IN
              /\ log' = Append(log, Call("verify", ok, 0, 0))
              /\ verdict' = IF r \in {"valid", "invalid"} THEN r ELSE verdict
              /\ console' = IF ok THEN VerificationReport(r) ELSE console
              /\ pc' = AfterVerification(ok)
       ELSE /\ pc' = "done"
            /\ UNCHANGED <<log, verdict, console>>
    /\ UNCHANGED <<ckVars, runArgs, uploadLocals, matchContributionHash, fileSize, aside,
                   nextUploadId, runs, ghosts, history>>

(* ---------------------------------------------------------------------- *)
(* The environment of an invocation.                                       *)
(* ---------------------------------------------------------------------- *)
RunningPcs ==
    {"download", "progress_computation", "compute", "store_hash", "progress_upload",
     "upload", "mpu_open", "mpu_store_id", "mpu_urls", "mpu_parts", "mpu_store_chunk",
     "mpu_close", "progress_verification", "verify"}

\* The process dies in the middle of an invocation; only the participant
\* document survives.
Crash ==
    /\ pc \in RunningPcs
    /\ CanFault
    /\ pc' = "idle"
    /\ crashed' = TRUE
    /\ UNCHANGED <<ckVars, runArgs, uploadLocals, verdict, matchContributionHash, console, log, fileSize, aside, nextUploadId, runs,
                   recovered, history>>

\* The invocation has returned or has been terminated by a fatal error.
Return ==
    /\ pc \in {"done", "failed"}
    /\ pc' = "idle"
    /\ crashed' = FALSE
    /\ UNCHANGED <<ckVars, runArgs, uploadLocals, verdict, matchContributionHash, console, log, fileSize, aside, nextUploadId, runs,
                   recovered, history>>

\* The external timeout recovery resets the participant document.
TimeoutRecovery ==
    /\ pc = "idle"
    /\ ckStep \in {DOWNLOADING, COMPUTING, UPLOADING, VERIFYING}
    /\ ckStep' = NOT_STARTED
    /\ ckTemp' = NoTempData
    /\ recovered' = TRUE
    /\ attempt' = [attempt EXCEPT ![FALSE] = {}]
    /\ UNCHANGED <<pc, runArgs, uploadLocals, verdict, matchContributionHash, console, log, fileSize, aside, nextUploadId, runs,
                   crashed, artifact, sessions, finalized>>

Configurations == IF runs + 1 < MaxRuns THEN BOOLEAN ELSE {TRUE}

StepProgress ==
    \/ makeContributionStepProgress("progress_computation", "compute")
    \/ makeContributionStepProgress("progress_upload", "upload")
    \/ makeContributionStepProgress("progress_verification", "verify")

Steps ==
    \/ DownloadStep
    \/ ComputeStep
    \/ StoreTimeAndHashStep
    \/ UploadStep
    \/ MultiPartOpen
    \/ MultiPartStoreUploadId
    \/ MultiPartUrls
    \/ MultiPartUploadPart
    \/ MultiPartStoreChunk
    \/ MultiPartClose
    \/ VerifyStep
    \/ StepProgress

Next ==
    \/ \E f \in BOOLEAN, withData \in BOOLEAN, conf \in Configurations :
         StartRun(f, withData, conf)
    \/ Steps
    \/ Crash
    \/ Return
    \/ TimeoutRecovery

Spec == Init /\ [][Next]_vars

\* Non-finalize invocations on the participant document as persisted, with
\* no timeout recovery in between; every enabled step of an invocation is
\* eventually taken, a finished invocation returns, and the caller invokes
\* again while it may.
Resume == \E conf \in Configurations : StartRun(FALSE, TRUE, conf)

LiveNext ==
    \/ Resume
    \/ Steps
    \/ Crash
    \/ Return

LiveSpec ==
    Init /\ [][LiveNext]_vars /\ WF_vars(Steps) /\ WF_vars(Return) /\ WF_vars(Resume)

(* ---------------------------------------------------------------------- *)
(* Reading the calls of an invocation.                                     *)
(* ---------------------------------------------------------------------- *)
\* The step a call belongs to (0 for the step progress request).
StepOfOp(op) ==
    CASE op = "download" -> DOWNLOADING
      [] op \in {"compute", "storeTimeAndHash"} -> COMPUTING
      [] op \in {"open", "storeUploadId", "authorize", "transmit", "storeChunk",
                 "finalize"} -> UPLOADING
      [] op = "verify" -> VERIFYING
      [] OTHER -> 0

FlowSteps == {DOWNLOADING, COMPUTING, UPLOADING, VERIFYING}

\* The step's action has been invoked by the current invocation.
Executed(step) == \E i \in DOMAIN log : StepOfOp(log[i].op) = step

Count(op) == Cardinality({i \in DOMAIN log : log[i].op = op})

\* The steps of the calls made, in order, consecutive calls of one step
\* counted once.
RECURSIVE PhasesOf(_)
PhasesOf(l) ==
    IF l = <<>> THEN <<>>
    ELSE LET rest == PhasesOf(Tail(l))
             st == StepOfOp(Head(l).op)
         IN  IF st = 0 \/ (rest # <<>> /\ Head(rest) = st) THEN rest ELSE <<st>> \o rest

IsPrefix(a, b) == Len(a) <= Len(b) /\ SubSeq(b, 1, Len(a)) = a

AllFourSteps == <<DOWNLOADING, COMPUTING, UPLOADING, VERIFYING>>

\* The participant data shows a step of the contribution flow.
InFlow(d) == d.present /\ d.contributionStep \in FlowSteps

HasUploadId(t) == t.present /\ t.uploadId # NoUploadId

C3_FinalizeRunsAll ==
    finalize =>
      /\ IsPrefix(PhasesOf(log), AllFourSteps)
      /\ pc = "done" => PhasesOf(log) = AllFourSteps

C3_Witness ==
    /\ finalize /\ pc = "done" /\ StepIs(newParticipantData, COMPLETED)
    /\ PhasesOf(log) = AllFourSteps

\* The call that completes a step that is followed by a step progress.
Completes(c) == c.ok /\ c.op \in {"download", "storeTimeAndHash", "finalize"}

ProgressPcOf(op) ==
    CASE op = "download" -> "progress_computation"
      [] op = "storeTimeAndHash" -> "progress_upload"
      [] OTHER -> "progress_verification"

\* C4: in a non-finalize invocation every successful download, compute and
\* upload is followed at once, before any call of the next step, by one step
\* progress request (to COMPUTING, UPLOADING and VERIFYING respectively),
\* and no step progress request is made anywhere else.
C4_ProgressAfterEachStep ==
    ~finalize =>
      \A i \in DOMAIN log :
        /\ log[i].op = "progress" =>
             /\ i > 1
             /\ Completes(log[i - 1])
             /\ log[i].id = StepOfOp(log[i - 1].op) + 1
        /\ Completes(log[i]) =>
             IF i < Len(log)
             THEN log[i + 1].op = "progress"
             ELSE pc \in {ProgressPcOf(log[i].op), "idle"}
        /\ \A j \in DOMAIN log :
             (log[i].op = "progress" /\ log[j].op = "progress" /\ log[i].id = log[j].id)
               => i = j

C4_Witness ==
    /\ ~finalize /\ pc = "done" /\ Count("progress") = 3
    /\ ckStep = VERIFYING

\* C5: a failed call is the last call of its invocation, which ends in the
\* fatal state: the call is not repeated, no later step is entered and no
\* step progress is requested after it.
C5_FailureIsFatal ==
    \A i \in DOMAIN log :
      ~log[i].ok => i = Len(log) /\ pc \in {"failed", "idle"}

C5_Witness ==
    /\ pc = "failed" /\ log # <<>>
    /\ log[Len(log)].op = "transmit" /\ ~log[Len(log)].ok
    /\ Count("progress") = 2

VerifyCalled == Count("verify") > 0

C9_FinalizeLeavesStep ==
    /\ [](finalize => Count("progress") = 0)
    /\ [][(finalize /\ pc # "idle") => ckStep' = ckStep]_vars

C9_Witness ==
    /\ finalize /\ pc = "done" /\ ckStep = DOWNLOADING
    /\ StepIs(newParticipantData, DOWNLOADING) /\ Count("finalize") = 1

(* ---------------------------------------------------------------------- *)
(* Properties of multiPartUpload.                                          *)
(* ---------------------------------------------------------------------- *)
\* C10: multiPartUpload calls openMultiPartUpload (once) exactly when it is
\* given no temporary data or temporary data without an uploadId; given an
\* uploadId it makes no open call and authorizes, transmits and finalizes
\* under that uploadId.
C10_OpenIffNoSession ==
    /\ Count("open") > 0 => ~HasUploadId(tempContributionData)
    /\ Count("open") <= 1
    /\ (pc = "mpu_urls" \/ Count("authorize") > 0) =>
         (Count("open") = 1 <=> ~HasUploadId(tempContributionData))
    /\ HasUploadId(tempContributionData) =>
         \A i \in DOMAIN log :
           log[i].op \in {"authorize", "transmit", "finalize"} =>
             log[i].id = tempContributionData.uploadId

C10_Witness ==
    /\ HasUploadId(tempContributionData) /\ pc = "done"
    /\ Count("open") = 0 /\ Count("authorize") = 1 /\ Count("finalize") = 1

(* ---------------------------------------------------------------------- *)
(* The multi-part upload protocol.                                         *)
(* ---------------------------------------------------------------------- *)
\* Program points of multiPartUpload after the upload identifier is settled.
AfterOpenPcs == {"mpu_urls", "mpu_parts", "mpu_store_chunk", "mpu_close"}

\* Positions of the log holding a call of one of the given operations.
CallsOf(ops) == {i \in DOMAIN log : log[i].op \in ops}

\* The upload identifier id has been stored in the participant document by an
\* earlier call of this invocation than position i.
StoredBefore(id, i) ==
    \E j \in 1..(i - 1) :
        log[j].op = "storeUploadId" /\ log[j].ok /\ log[j].id = id

\* The invocation has opened a new upload and every later part authorization
\* or transmission comes after the upload identifier has been stored; from
\* then on the participant document holds the identifier in use.
PersistedBeforeParts ==
    /\ \A i \in CallsOf({"authorize", "transmit"}) :
         Count("open") > 0 => StoredBefore(log[i].id, i)
    /\ (pc \in AfterOpenPcs /\ Count("open") > 0) =>
         (HasUploadId(ckTemp) /\ ckTemp.uploadId = uploadIdZkey)

\* C11 (as amended): in an invocation that is not a finalization, a newly
\* opened upload has its uploadId stored in the participant document before
\* any part authorization or part transmission is requested, and the document
\* keeps that identifier for the rest of the upload.
C11_UploadIdPersistedFirst == ~finalize => PersistedBeforeParts

\* C11 (as stated): whenever an upload opens a new session, finalization
\* included, the uploadId is stored before any authorization or transmission.
C11_Original == PersistedBeforeParts

\* A non-finalize invocation has opened an upload, stored its identifier and
\* transmitted a part.
C11_Witness ==
    /\ ~finalize
    /\ Count("open") = 1
    /\ Count("storeUploadId") = 1
    /\ \E i \in CallsOf({"transmit"}) : log[i].ok
    /\ pc = "mpu_store_chunk"

\* The temporary data handed to multiPartUpload names an upload to resume.
Resumed == HasUploadId(tempContributionData)

\* Part numbers recorded in the temporary data the invocation resumed from.
RecordedAtResume == PartNumbers(tempContributionData.chunks)

\* Parts covered by the authorization call at position i of the log: the call
\* asks pre-signed urls for the parts 1..part.
AuthorizedParts(i) == 1..log[i].part

\* No part recorded in the temporary data is transmitted by the invocation.
NoRecordedPartTransmitted ==
    \A i \in CallsOf({"transmit"}) : log[i].part \notin RecordedAtResume

AfterUploadPcs == {"progress_verification", "verify", "done"}

\* The list of parts carried by the call at position i holds the parts 1..n,
\* each once.
CarriesAllParts(i, n) ==
    /\ Len(log[i].parts) = n
    /\ PartNumbers(log[i].parts) = 1..n

C13_WitnessAllRecorded ==
    /\ Resumed
    /\ Len(tempContributionData.chunks) = NumberOfParts(fileSize)
    /\ Count("finalize") = 1
    /\ pc = "progress_verification"

\* The list holds one chunk per part of the file, the i-th being part i, each
\* with a completion token.
CompleteAscending(chunks) ==
    /\ Len(chunks) = NumberOfParts(fileSize)
    /\ \A i \in 1..Len(chunks) :
         /\ chunks[i].PartNumber = i
         /\ chunks[i].ETag > 0

\* C14: the finalize call is made only when every part 1..N has a completion
\* token, recorded in the participant document when the invocation is not a
\* finalization, and the list it carries has the part numbers 1..N, each once,
\* in strictly ascending order.
C14_FinalizeCarriesAllParts ==
    /\ pc = "mpu_close" =>
         /\ CompleteAscending(partNumbersAndETags)
         /\ ~finalize => ckTemp.chunks = partNumbersAndETags
    /\ \A i \in CallsOf({"finalize"}) : CompleteAscending(log[i].parts)

\* A finalize call has been made for a file of three parts by an invocation
\* that resumed the upload with one part recorded.
C14_Witness ==
    /\ NumberOfParts(fileSize) = 3
    /\ Resumed
    /\ Len(tempContributionData.chunks) = 1
    /\ \E i \in CallsOf({"finalize"}) : log[i].ok /\ Len(log[i].parts) = 3
    /\ pc = "verify"

\* The list of parts an uninterrupted upload of the artifact of the given
\* version hands to the finalize call: every part of the file in order, with
\* the completion token of its bytes.
FreshUploadParts(version) ==
    [i \in 1..NumberOfParts(fileSize) |->
        [PartNumber |-> i, ETag |-> ETagOf(version, i)]]

\* C15: the finalize call of an upload, resumed from any recorded parts after
\* any number of crashes or not, carries the list of part numbers and
\* completion tokens that an uninterrupted upload of the same file carries.
C15_ResumeEquivalentToFresh ==
    \A i \in CallsOf({"finalize"}) :
        log[i].parts = FreshUploadParts(artifact[finalize])

\* After a crash an upload has been resumed with one of several parts recorded
\* and its finalize call has succeeded.
C15_Witness ==
    /\ crashed
    /\ Resumed
    /\ Len(tempContributionData.chunks) = 1
    /\ NumberOfParts(fileSize) > 1
    /\ \E i \in CallsOf({"finalize"}) : log[i].ok

\* C16: within one contribution attempt, crashes and resumes during the
\* upload included, the non-finalize invocations open at most one upload, so
\* that at most one uploadId exists for the attempt.
C16_Original == Cardinality(sessions) <= 1

\* Operations that refer to an upload by its uploadId.
SessionOps == {"authorize", "transmit", "finalize"}

\* C17: once the finalize call of an upload has succeeded, no later
\* authorize, transmit or finalize call, a call made after a crash and resume
\* included, uses the uploadId of that upload.
C17_Original ==
    [][\A i \in DOMAIN log' :
         (i > Len(log) /\ log'[i].op \in SessionOps) => log'[i].id \notin finalized]_vars

\* No part number occurs twice in the list of chunks.
UniqueParts(chunks) == Cardinality(PartNumbers(chunks)) = Len(chunks)

\* The chunks of the first list are kept, in place and unchanged, by the second.
ChunksKept(before, after) ==
    /\ Len(before) <= Len(after)
    /\ \A i \in 1..Len(before) : after[i] = before[i]

\* C18: while the participant document holds an upload session its uploadId
\* never changes and its recorded parts only grow: no recorded (part number,
\* completion token) pair is removed or replaced, and no part number is
\* recorded twice.
C18_SessionOnlyGrows ==
    /\ [](UniqueParts(ckTemp.chunks) /\ UniqueParts(partNumbersAndETags))
    /\ [][(HasUploadId(ckTemp) /\ HasUploadId(ckTemp')) =>
            /\ ckTemp'.uploadId = ckTemp.uploadId
            /\ ChunksKept(ckTemp.chunks, ckTemp'.chunks)]_vars

\* An invocation that resumed an upload with one part recorded has recorded a
\* further part in the same session.
C18_Witness ==
    /\ Resumed
    /\ Len(tempContributionData.chunks) = 1
    /\ ckTemp.uploadId = tempContributionData.uploadId
    /\ Len(ckTemp.chunks) = 2
    /\ Count("storeChunk") = 1

\* ceil(s / p): the least n with n * p >= s.
CeilDiv(s, p) == CHOOSE n \in 0..s : n * p >= s /\ \A m \in 0..(n - 1) : m * p < s

\* The upload of the invocation is made of exactly n parts, numbered 1..n:
\* the authorization covers n parts, the transmitted parts are among 1..n and
\* the finalize call carries the parts 1..n.
UploadHasParts(n) ==
    /\ \A i \in CallsOf({"authorize"}) : log[i].part = n
    /\ \A i \in CallsOf({"transmit"}) : log[i].part \in 1..n
    /\ \A i \in CallsOf({"finalize"}) : CarriesAllParts(i, n)

IsTransferCall(c) == c.op \in {"open", "authorize", "transmit", "finalize"}
TransferOps ==
    LET calls == SelectSeq(log, IsTransferCall)
    IN  [i \in 1..Len(calls) |-> calls[i].op]

OnePartUpload == <<"open", "authorize", "transmit", "finalize">>

\* C20: a file of zero bytes and a file no larger than one part are uploaded
\* from scratch as one part: one open, one part authorization, one part
\* transmission and one finalize call, in that order.
C20_OnePartUpload ==
    (fileSize <= ChunkSize /\ ~Resumed) =>
        /\ IsPrefix(TransferOps, OnePartUpload)
        /\ Count("finalize") > 0 =>
             /\ TransferOps = OnePartUpload
             /\ \A i \in CallsOf({"transmit"}) : log[i].part = 1
             /\ \A i \in CallsOf({"finalize"}) : CarriesAllParts(i, 1)

\* The upload of a zero-byte file has been completed from scratch.
C20_Witness ==
    /\ fileSize = 0
    /\ ~Resumed
    /\ TransferOps = OnePartUpload
    /\ \A i \in DOMAIN log : log[i].ok
    /\ pc = "progress_verification"

\* The upload of a non-empty file of at most one part has been completed
\* from scratch.
C20_WitnessOnePart ==
    /\ fileSize \in 1..ChunkSize
    /\ ~Resumed
    /\ TransferOps = OnePartUpload
    /\ pc = "progress_verification"

(* ---------------------------------------------------------------------- *)
(* Error handling.                                                         *)
(* ---------------------------------------------------------------------- *)
\* Program points inside multiPartUpload, past its configuration check.
MultiPartPcs == {"mpu_open", "mpu_store_id"} \cup AfterOpenPcs

\* Calls made by multiPartUpload: to the storage and to the temporary store.
MultiPartOps ==
    {"open", "authorize", "transmit", "finalize", "storeUploadId", "storeChunk"}

\* C21: when the pre-signed url expiration is not configured the upload fails
\* at its configuration check: no open, authorize, transmit or finalize call
\* is made, nothing is stored in the participant document by the upload, and
\* an invocation that had to upload goes no further (no step progress to
\* verification, no verification).
C21_MissingConfigurationAborts ==
    ~configured =>
        /\ CallsOf(MultiPartOps) = {}
        /\ pc \notin MultiPartPcs
        /\ (newParticipantData.present /\ pc # "idle") =>
             ckTemp = newParticipantData.tempContributionData
        /\ UploadGate(finalize, newParticipantData) =>
             /\ pc \notin AfterUploadPcs
             /\ Count("verify") = 0

\* An invocation without the configuration has computed the contribution,
\* advanced to the upload step and failed there.
C21_Witness ==
    /\ ~configured
    /\ ~finalize
    /\ Count("compute") = 1
    /\ Count("progress") = 2
    /\ \A i \in DOMAIN log : log[i].ok
    /\ ckStep = UPLOADING
    /\ pc = "failed"

\* C22: when the transcript of the computation holds no text matching the
\* contribution hash pattern the invocation ends with a fatal error: no
\* contribution time and hash is stored, no step progress to UPLOADING is
\* asked, and neither the upload nor the verification is entered.
C22_NoHashIsFatal ==
    matchContributionHash = "none" =>
        /\ pc \in {"failed", "idle"}
        /\ Count("storeTimeAndHash") = 0
        /\ log[Len(log)].op = "compute"
        /\ \A i \in CallsOf({"progress"}) : log[i].id # UPLOADING
        /\ CallsOf(MultiPartOps) = {}
        /\ Count("verify") = 0

\* A non-finalize invocation has computed a contribution whose transcript
\* holds no hash and has ended in the fatal error.
C22_Witness ==
    /\ matchContributionHash = "none"
    /\ ~finalize
    /\ Count("compute") = 1
    /\ ckStep = COMPUTING
    /\ pc = "failed"

\* C23: a verification answer with valid = false is a normal outcome: the
\* invocation returns without a fatal error, the verification call counts as
\* succeeded, and the invalid verdict is printed together with the time the
\* verification and the contribution took.
C23_InvalidIsNormalOutcome ==
    verdict = "invalid" =>
        /\ pc \in {"done", "idle"}
        /\ log[Len(log)].op = "verify" /\ log[Len(log)].ok
        /\ console = <<"INVALID", "verification took", "contribution took">>

\* An invocation has returned after the verification answered valid = false.
C23_Witness ==
    /\ verdict = "invalid"
    /\ pc = "done"
    /\ Len(console) = 3

\* C24: an invocation calls the verification at most once; when the call is
\* rejected, times out or gives no response, the invocation ends with a fatal
\* error right there: nothing is called after it, no verdict is printed.
C24_VerifyOnceNoRetry ==
    /\ Count("verify") <= 1
    /\ \A i \in CallsOf({"verify"}) :
         /\ i = Len(log)
         /\ ~log[i].ok =>
              /\ pc \in {"failed", "idle"}
              /\ console = <<>>

\* The verification call of an invocation has failed and the invocation has
\* ended in the fatal error.
C24_Witness ==
    /\ Count("verify") = 1
    /\ ~log[Len(log)].ok
    /\ log[Len(log)].op = "verify"
    /\ pc = "failed"

(* ---------------------------------------------------------------------- *)
(* Utility functions, applied to arguments drawn from bounded sets.        *)
(* ---------------------------------------------------------------------- *)
contributionVars ==
    <<ckStep, ckTemp, pc, finalize, newParticipantData, configured,
      tempContributionData, uploadIdZkey, partNumbersAndETags, verdict,
      matchContributionHash, console, log, fileSize, nextUploadId, runs, crashed,
      recovered, artifact, sessions, finalized, attempt>>

\* Largest number of whole days in a time argument.
MaxDays == 2

\* The remainder operator of the language: the result has the sign of a.
JsMod(a, b) == IF a >= 0 THEN a % b ELSE -((-a) % b)

\* The fields of getSecondsMinutesHoursFromMillis before they are clamped.
\* delta (seconds, with a fraction) is kept in milliseconds.
TimeFieldsTotals(millis) ==
    [seconds |-> millis \div 1000, minutes |-> millis \div 60000,
     hours |-> millis \div 3600000, days |-> millis \div 86400000]
TimeFieldsNoDays(millis) ==
    LET hours == JsMod(millis \div 3600000, 24)
        afterHours == millis - hours * 3600000
        minutes == JsMod(afterHours \div 60000, 60)
        afterMinutes == afterHours - minutes * 60000
    IN  [seconds |-> JsMod(afterMinutes \div 1000, 60), minutes |-> minutes,
         hours |-> hours, days |-> 0]
TruncDiv(a, b) == IF a >= 0 THEN a \div b ELSE 0 - ((0 - a) \div b)
TimeFieldsTruncated(millis) ==
    LET days == TruncDiv(millis, 86400000)
        afterDays == millis - days * 86400000
        hours == JsMod(TruncDiv(afterDays, 3600000), 24)
        afterHours == afterDays - hours * 3600000
        minutes == JsMod(TruncDiv(afterHours, 60000), 60)
        afterMinutes == afterHours - minutes * 60000
        seconds == JsMod(TruncDiv(afterMinutes, 1000), 60)
    IN  [seconds |-> seconds, minutes |-> minutes, hours |-> hours, days |-> days]
TimeFields(millis) ==
    LET days == millis \div 86400000
        afterDays == millis - days * 86400000
        hours == JsMod(afterDays \div 3600000, 24)
        afterHours == afterDays - hours * 3600000
        minutes == JsMod(afterHours \div 60000, 60)
        afterMinutes == afterHours - minutes * 60000
        seconds == JsMod(afterMinutes \div 1000, 60)
    IN  [seconds |-> seconds, minutes |-> minutes, hours |-> hours, days |-> days]

\* Extract from milliseconds the seconds, minutes, hours and days.
getSecondsMinutesHoursFromMillis(millis) ==
    LET t == TimeFields(millis)
    IN  [seconds |-> IF t.seconds >= 60 THEN 59 ELSE t.seconds,
         minutes |-> IF t.minutes >= 60 THEN 59 ELSE t.minutes,
         hours |-> IF t.hours >= 24 THEN 23 ELSE t.hours,
         days |-> t.days]

\* Millisecond arguments: every combination of small, one and largest field
\* values, with and without a fraction of a second.
TimeInputs ==
    {d * 86400000 + h * 3600000 + m * 60000 + sec * 1000 + r :
        d \in 0..MaxDays, h \in {0, 1, 23}, m \in {0, 1, 59}, sec \in {0, 1, 59},
        r \in {0, 999}}

\* Millisecond arguments of a deadline already passed, by one millisecond
\* or by any of the times above.
NegativeTimeInputs == {0 - millis : millis \in (TimeInputs \ {0}) \cup {1}}

ApplyGetSecondsMinutesHoursFromMillis ==
    /\ utility.fn = "getSecondsMinutesHoursFromMillis"
    /\ ~utility.done
    /\ utility' = [utility EXCEPT !.done = TRUE,
                                  !.ret = getSecondsMinutesHoursFromMillis(utility.arg)]
    /\ UNCHANGED <<contributionVars, pool>>

\* Status of a participant, as far as the timeout handling reads it.
ParticipantStatus == {"CONTRIBUTING", "TIMEDOUT"}

\* Documents of the active timeouts of a participant: zero to two records,
\* each with or without data, ending in a second or in a day and more.
TimeoutRecords == [hasData : BOOLEAN, endDate : {1000, 90061000}]
ActiveTimeouts ==
    {<<>>} \cup {<<a>> : a \in TimeoutRecords}
           \cup {<<a, b>> : a \in TimeoutRecords, b \in TimeoutRecords}

\* The query must give exactly one active timeout.
ActiveTimeoutsOkM(activeTimeouts) == Len(activeTimeouts) >= 1
ActiveTimeoutsOk(activeTimeouts) == Len(activeTimeouts) = 1

\* Nothing printed about the retry.
NoRetry == [seconds |-> -1, minutes |-> -1, hours |-> -1, days |-> -1]

\* handleTimedoutMessageForContributor on the participant data d, the active
\* timeouts found by the query and the current time. exit tells how the call
\* ends: "return" to the caller, "terminate" (the process exits after the
\* retry time is printed) or "error" (fatal error); retry is the time printed.
handleTimedoutMessageForContributor(d) ==
    IF d.status = "TIMEDOUT" /\ d.contributionStep # COMPLETED
    THEN IF ~ActiveTimeoutsOk(d.activeTimeouts)
         THEN [exit |-> "error", retry |-> NoRetry]
         ELSE IF ~d.activeTimeouts[1].hasData
              THEN [exit |-> "error", retry |-> NoRetry]
              ELSE [exit |-> "terminate",
                    retry |-> getSecondsMinutesHoursFromMillis(
                                  d.activeTimeouts[1].endDate - d.now)]
    ELSE [exit |-> "return", retry |-> NoRetry]

TimedoutInputs ==
    [status : ParticipantStatus, contributionStep : ParticipantContributionStep,
     activeTimeouts : ActiveTimeouts, now : {0, 400}]

ApplyHandleTimedoutMessageForContributor ==
    /\ utility.fn = "handleTimedoutMessageForContributor"
    /\ ~utility.done
    /\ utility' = [utility EXCEPT !.done = TRUE,
                                  !.ret = handleTimedoutMessageForContributor(utility.arg)]
    /\ UNCHANGED <<contributionVars, pool>>

\* Largest index of the dense range of indexes formatted.
MaxIndex == 120

\* The characters of the first zkey index, "00000".
firstZkeyIndex == <<"0", "0", "0", "0", "0">>

Digits == <<"0", "1", "2", "3", "4", "5", "6", "7", "8", "9">>

\* progress.toString(): the decimal digits of a non-negative integer.
RECURSIVE toString(_)
toString(n) ==
    IF n < 10 THEN <<Digits[n + 1]>>
    ELSE Append(toString(n \div 10), Digits[(n % 10) + 1])

\* The loop of formatZkeyIndex: a "0" in front while the index is shorter
\* than the first zkey index.
RECURSIVE PadOneMore(_)
PadOneMore(index) ==
    IF Len(index) <= Len(firstZkeyIndex) THEN PadOneMore(<<"0">> \o index) ELSE index
RECURSIVE Pad(_)
Pad(index) ==
    IF Len(index) < Len(firstZkeyIndex) THEN Pad(<<"0">> \o index) ELSE index

\* Format the next zkey index.
formatZkeyIndexPadsOneMore(progress) == PadOneMore(toString(progress))
formatZkeyIndex(progress) == Pad(toString(progress))

\* Indexes: a dense range of small ones, and the ones around each width.
IndexInputs ==
    (0..MaxIndex) \cup {999, 1000, 9999, 10000, 12345, 99999, 100000, 100001,
                       999999, 1000000}

ApplyFormatZkeyIndex ==
    /\ utility.fn = "formatZkeyIndex"
    /\ ~utility.done
    /\ utility' = [utility EXCEPT !.done = TRUE, !.ret = formatZkeyIndex(utility.arg)]
    /\ UNCHANGED <<contributionVars, pool>>

\* The utility functions start from one state of the contribution, which
\* they leave alone.
UtilsInit ==
    /\ ContributionInit
    /\ ckStep = NOT_STARTED /\ ckTemp = NoTempData /\ fileSize = 0
    /\ pool = NoPool
    /\ \E fn \in {"getSecondsMinutesHoursFromMillis",
                  "handleTimedoutMessageForContributor", "formatZkeyIndex"} :
         \E arg \in CASE fn = "getSecondsMinutesHoursFromMillis" ->
                           TimeInputs \cup NegativeTimeInputs
                      [] fn = "handleTimedoutMessageForContributor" -> TimedoutInputs
                      [] fn = "formatZkeyIndex" -> IndexInputs :
           utility = [fn |-> fn, arg |-> arg, done |-> FALSE, ret |-> 0]

UtilsNext ==
    \/ ApplyGetSecondsMinutesHoursFromMillis
    \/ ApplyHandleTimedoutMessageForContributor
    \/ ApplyFormatZkeyIndex

UtilsSpec == UtilsInit /\ [][UtilsNext]_vars

\* The utility function fn has been applied.
Applied(fn) == utility.fn = fn /\ utility.done

\* The call of handleTimedoutMessageForContributor ended the process.
ProcessEnded == utility.ret.exit \in {"terminate", "error"}

\* No step of a non-finalize makeContribution is open on the participant data.
NoStepOpen(d) ==
    LET p == [present |-> TRUE, contributionStep |-> d.contributionStep,
              tempContributionData |-> NoTempData]
    IN  /\ ~DownloadGate(FALSE, p) /\ ~ComputeGate(FALSE, p)
        /\ ~UploadGate(FALSE, p) /\ ~VerifyGate(FALSE, p)

\* C25: when the participant is timed out, the timeout handling leaves no
\* way to a contribution step: it ends the process, unless the step is
\* COMPLETED, where no step is open anyway; and a retry time is printed only
\* when the query gives exactly one active timeout, from whose end date, less
\* the current time, it is computed.
C25_TimedOutIsLockedOut ==
    (Applied("handleTimedoutMessageForContributor")
        /\ utility.arg.status = "TIMEDOUT") =>
        LET d == utility.arg
            r == utility.ret
        IN  /\ ProcessEnded \/ (d.contributionStep = COMPLETED /\ NoStepOpen(d))
            /\ r.retry # NoRetry =>
                 /\ Len(d.activeTimeouts) = 1
                 /\ r.exit = "terminate"
                 /\ r.retry = getSecondsMinutesHoursFromMillis(
                                 d.activeTimeouts[1].endDate - d.now)
            /\ (d.contributionStep # COMPLETED /\ Len(d.activeTimeouts) = 1
                  /\ d.activeTimeouts[1].hasData) => r.retry # NoRetry

\* The handling of a participant timed out while uploading, with one active
\* timeout ending in a day and more, has printed the retry time and ended
\* the process.
C25_Witness ==
    /\ Applied("handleTimedoutMessageForContributor")
    /\ utility.arg.status = "TIMEDOUT"
    /\ utility.arg.contributionStep = UPLOADING
    /\ Len(utility.arg.activeTimeouts) = 1
    /\ utility.ret.exit = "terminate"
    /\ utility.ret.retry.days = 1

\* The whole seconds told by the fields of a decomposed time.
SecondsOf(t) == t.days * 86400 + t.hours * 3600 + t.minutes * 60 + t.seconds

\* C26: for every non-negative number of milliseconds the fields returned by
\* getSecondsMinutesHoursFromMillis add up to the whole seconds of the
\* argument: days * 86400 + hours * 3600 + minutes * 60 + seconds =
\* floor(ms / 1000); 90,061,000 ms gives 1 day, 1 hour, 1 minute and 1 second,
\* and 0 ms gives four zero fields.
C26_TimeDecomposition ==
    Applied("getSecondsMinutesHoursFromMillis") =>
        /\ SecondsOf(utility.ret) = utility.arg \div 1000
        /\ utility.arg = 90061000 =>
             utility.ret = [seconds |-> 1, minutes |-> 1, hours |-> 1, days |-> 1]
        /\ utility.arg = 0 =>
             utility.ret = [seconds |-> 0, minutes |-> 0, hours |-> 0, days |-> 0]

\* 90,061,000 ms have been decomposed.
C26_Witness ==
    /\ Applied("getSecondsMinutesHoursFromMillis")
    /\ utility.arg = 90061000
    /\ utility.ret.days = 1

\* C27: for every non-negative number of milliseconds the fields computed
\* before the clamp already satisfy 0 <= seconds < 60, 0 <= minutes < 60 and
\* 0 <= hours < 24, so that no clamp branch is taken and the result is the
\* fields as computed.
C27_ClampUnreachable ==
    (Applied("getSecondsMinutesHoursFromMillis") /\ utility.arg >= 0) =>
        LET t == TimeFields(utility.arg)
        IN  /\ t.seconds \in 0..59
            /\ t.minutes \in 0..59
            /\ t.hours \in 0..23
            /\ utility.ret = t

\* A time with the largest value of every field and a fraction of a second
\* has been decomposed.
C27_Witness ==
    /\ Applied("getSecondsMinutesHoursFromMillis")
    /\ utility.arg % 1000 = 999
    /\ utility.ret.seconds = 59
    /\ utility.ret.minutes = 59
    /\ utility.ret.hours = 23
    /\ utility.ret.days = MaxDays

\* The value of a character that is a decimal digit.
DigitValue(c) == (CHOOSE i \in 1..10 : Digits[i] = c) - 1

\* The number a sequence of decimal digits stands for.
RECURSIVE ParseInt(_)
ParseInt(str) ==
    IF str = <<>> THEN 0
    ELSE 10 * ParseInt(SubSeq(str, 1, Len(str) - 1)) + DigitValue(str[Len(str)])

\* The number of decimal digits of a non-negative integer.
RECURSIVE NumberOfDigits(_)
NumberOfDigits(n) == IF n < 10 THEN 1 ELSE 1 + NumberOfDigits(n \div 10)

Max(a, b) == IF a >= b THEN a ELSE b

\* C28: for every non-negative integer n, formatZkeyIndex(n) is made of the
\* decimal digits of n with zeros in front up to the width of the first index
\* (5), never truncated: its length is max(5, number of digits of n), every
\* character is a digit and it parses back to n; 3 gives "00003" and 100000
\* gives "100000".
C28_FormatZkeyIndex ==
    Applied("formatZkeyIndex") =>
        LET n == utility.arg
            index == utility.ret
        IN  /\ Len(index) = Max(5, NumberOfDigits(n))
            /\ \A i \in 1..Len(index) : \E j \in 1..10 : index[i] = Digits[j]
            /\ \A i \in 1..(Len(index) - NumberOfDigits(n)) : index[i] = "0"
            /\ ParseInt(index) = n
            /\ n = 3 => index = <<"0", "0", "0", "0", "3">>
            /\ n = 100000 => index = <<"1", "0", "0", "0", "0", "0">>

\* The index 100000, wider than the first index, has been formatted.
C28_Witness ==
    /\ Applied("formatZkeyIndex")
    /\ utility.arg = 100000
    /\ Len(utility.ret) = 6

\* The index 3 has been formatted.
C28_WitnessPadded ==
    /\ Applied("formatZkeyIndex")
    /\ utility.arg = 3
    /\ Len(utility.ret) = 5

(* ---------------------------------------------------------------------- *)
(* Concurrency.                                                            *)
(* ---------------------------------------------------------------------- *)
\* The blocking calls in progress at logical time t.
InProgress(t) == {i \in DOMAIN log : log[i].start <= t /\ t < log[i].end}

\* C29: at every moment of an invocation at most one blocking call
\* (download, compute, part authorization, part transmission, finalize,
\* verify, store, step progress) is in progress, and a call starts only when
\* every earlier call, the action of the previous step and its step progress
\* included, has completed or failed; a failed call is the last one.
C29_OneBlockingActionAtATime ==
    /\ \A t \in 0..Now(log) : Cardinality(InProgress(t)) <= 1
    /\ \A i \in DOMAIN log : \A j \in DOMAIN log :
         i < j => (log[i].end <= log[j].start /\ log[i].ok)

\* A full invocation has made its calls one after the other.
C29_Witness ==
    /\ ~finalize
    /\ Count("download") = 1 /\ Count("compute") = 1
    /\ Count("transmit") = 2 /\ Count("finalize") = 1
    /\ Count("progress") = 3 /\ Count("verify") = 1
    /\ pc = "done"

(* ---------------------------------------------------------------------- *)
(* Part transmission by a bounded pool of workers: uploadParts as the      *)
(* contract allows it, inside multiPartUpload as it is.                    *)
(* ---------------------------------------------------------------------- *)
\* Number of workers of the pool.
PoolSize == 2

Workers == 1..PoolSize

IdleWorker == [state |-> "idle", part |-> 0, start |-> 0]

\* The chunk recorded for a part of the artifact being uploaded.
ChunkOf(k) == [PartNumber |-> k, ETag |-> ETagOf(artifact[finalize], k)]

\* The chunks of a set of parts, in ascending order of part number.
RECURSIVE AscendingChunks(_)
AscendingChunks(S) ==
    IF S = {} THEN <<>> ELSE <<ChunkOf(Min(S))>> \o AscendingChunks(S \ {Min(S)})

\* Parts a worker has taken and not yet recorded.
Held == {pool.workers[w].part : w \in Workers} \ {0}

\* Parts neither recorded nor taken by a worker.
Unclaimed == MissingParts(partNumbersAndETags) \ Held

\* A free worker takes the next part; taking is one step of the event loop.
WorkerClaim(w) ==
    /\ pool.active /\ pc = "mpu_parts"
    /\ pool.workers[w].state = "idle"
    /\ Unclaimed # {}
    /\ pool' = [pool EXCEPT !.clock = @ + 1,
                            !.workers[w] = [state |-> "transmitting",
                                            part |-> Min(Unclaimed),
                                            start |-> pool.clock]]
    /\ UNCHANGED <<contributionVars, utility>>

\* The transmission of a worker's part completes, and its completion token
\* is put in the list, or fails.
WorkerTransmit(w) ==
    /\ pool.active /\ pc = "mpu_parts"
    /\ pool.workers[w].state = "transmitting"
    /\ LET k == pool.workers[w].part IN
       \E ok \in Outcomes :
         /\ log' = Append(log, [Call("transmit", ok, uploadIdZkey, k)
                                  EXCEPT !.start = pool.workers[w].start,
                                         !.end = pool.clock + 1])
         /\ partNumbersAndETags' = IF ok THEN Append(partNumbersAndETags, ChunkOf(k))
                                         ELSE partNumbersAndETags
         /\ pc' = AfterAwait(ok, "mpu_parts")
         /\ pool' = [pool EXCEPT !.clock = @ + 1,
                                 !.workers[w] =
                                    IF ok /\ StoreCFsSupplied(finalize)
                                    THEN [state |-> "storing", part |-> k,
                                          start |-> pool.clock + 1]
                                    ELSE IdleWorker]
    /\ UNCHANGED <<ckVars, runArgs, tempContributionData, uploadIdZkey, verdict,
                   matchContributionHash, console, fileSize, nextUploadId, runs, ghosts,
                   history, utility>>

\* The temporary store of the chunk a worker has just uploaded.
WorkerStore(w) ==
    /\ pool.active /\ pc = "mpu_parts"
    /\ pool.workers[w].state = "storing"
    /\ LET k == pool.workers[w].part IN
       \E ok \in Outcomes :
         /\ log' = Append(log, [Call("storeChunk", ok, uploadIdZkey, k)
                                  EXCEPT !.start = pool.workers[w].start,
                                         !.end = pool.clock + 1])
         /\ ckTemp' = IF ok THEN [ckTemp EXCEPT !.chunks = Append(@, ChunkOf(k))]
                            ELSE ckTemp
         /\ pc' = AfterAwait(ok, "mpu_parts")
         /\ pool' = [pool EXCEPT !.clock = @ + 1, !.workers[w] = IdleWorker]
    /\ UNCHANGED <<ckStep, runArgs, uploadLocals, verdict, matchContributionHash, console,
                   fileSize, nextUploadId, runs, ghosts, history, utility>>

\* uploadParts returns when no part is missing and every worker is free.
PoolReturn ==
    /\ pool.active /\ pc = "mpu_parts"
    /\ \A w \in Workers : pool.workers[w].state = "idle"
    /\ MissingParts(partNumbersAndETags) = {}
    /\ pc' = "mpu_close"
    /\ UNCHANGED <<ckVars, runArgs, uploadLocals, verdict, matchContributionHash, console,
                   log, fileSize, nextUploadId, runs, ghosts, history, aside>>

\* multiPartUpload has the upload identifier and the pre-signed urls and is
\* about to call uploadParts: in a finalization, started from scratch; in a
\* contribution, with any set of the parts recorded in the temporary data.
PoolInit ==
    /\ fileSize \in 0..MaxFileSize
    /\ finalize \in BOOLEAN
    /\ artifact = [f \in BOOLEAN |-> 1]
    /\ \E R \in SUBSET (1..NumberOfParts(fileSize)) :
         /\ finalize => R = {}
         /\ ckTemp = IF finalize THEN NoTempData
                     ELSE [present |-> TRUE, uploadId |-> 1, chunks |-> AscendingChunks(R)]
    /\ tempContributionData = ckTemp
    /\ partNumbersAndETags =
         IF CanResume(tempContributionData)
         THEN AlreadyUploadedChunks(tempContributionData) ELSE <<>>
    /\ ckStep = UPLOADING
    /\ newParticipantData =
         [present |-> TRUE, contributionStep |-> ckStep, tempContributionData |-> ckTemp]
    /\ pc = "mpu_parts"
    /\ configured = TRUE
    /\ uploadIdZkey = 1
    /\ nextUploadId = 2
    /\ verdict = "none"
    /\ matchContributionHash = "unread"
    /\ console = <<>>
    /\ log = <<>>
    /\ runs = 1
    /\ crashed = FALSE
    /\ recovered = FALSE
    /\ sessions = IF finalize THEN {} ELSE {1}
    /\ finalized = {}
    /\ attempt = [f \in BOOLEAN |-> IF f = finalize THEN {"download", "compute", "storeTimeAndHash"}
                                   ELSE {}]
    /\ utility = NoUtility
    /\ pool = [active |-> TRUE, clock |-> 0, workers |-> [w \in Workers |-> IdleWorker]]

PoolNext ==
    \/ \E w \in Workers : WorkerClaim(w)
    \/ \E w \in Workers : WorkerTransmit(w)
    \/ \E w \in Workers : WorkerStore(w)
    \/ PoolReturn
    \/ MultiPartClose

PoolSpec == PoolInit /\ [][PoolNext]_vars

\* Successful transmissions of the part k in the invocation.
TransmissionsOf(k) == {i \in CallsOf({"transmit"}) : log[i].part = k /\ log[i].ok}

ContiguousFromOne(parts) ==
    {parts[a].PartNumber : a \in DOMAIN parts} = 1..Len(parts)

StrictlyAscending(parts) ==
    \A a \in DOMAIN parts : \A b \in DOMAIN parts :
        a < b => parts[a].PartNumber < parts[b].PartNumber

MaxDuration == 62
MaxInterval == 3
MaxOverrun == 3

\* The local state of a countdown: the two counters of the closure, the
\* parity of the number of calls of the callback, and whether the expiration
\* has been signalled.
Countdown(durationInSeconds, intervalInSeconds) ==
    [durationInSeconds |-> durationInSeconds,
     intervalInSeconds |-> intervalInSeconds,
     seconds |-> IF durationInSeconds <= 60 THEN durationInSeconds ELSE 60,
     calls |-> 0,
     expired |-> FALSE]

\* The test the callback makes before it counts down.
StillCounting(durationInSeconds) == durationInSeconds # 0

\* The counters are below zero by more than MaxOverrun seconds: from here
\* every call finds a duration other than zero and lowers it further.
Overrun(c) == c.durationInSeconds < 0 /\ c.durationInSeconds < 0 - MaxOverrun

\* One call of the interval callback while there is time left: both
\* counters go down by the interval (and the remaining time is written).
CountdownTick ==
    /\ utility.fn = "createExpirationCountdown"
    /\ ~utility.ret.expired
    /\ StillCounting(utility.ret.durationInSeconds)
    /\ LET c == utility.ret
           s == c.seconds - c.intervalInSeconds
       IN  utility' = [utility EXCEPT
                         !.ret = IF Overrun(c)
                                 THEN [c EXCEPT !.calls = 1 - @]
                                 ELSE [c EXCEPT
                                         !.durationInSeconds = @ - c.intervalInSeconds,
                                         !.seconds = IF JsMod(s, 60) = 0 THEN 0 ELSE s,
                                         !.calls = 1 - @]]
    /\ UNCHANGED <<contributionVars, pool>>

\* One call of the interval callback when the duration is zero: the
\* countdown-expired error, which ends the process.
CountdownExpire ==
    /\ utility.fn = "createExpirationCountdown"
    /\ ~utility.ret.expired
    /\ ~StillCounting(utility.ret.durationInSeconds)
    /\ utility' = [utility EXCEPT !.done = TRUE, !.ret.expired = TRUE]
    /\ UNCHANGED <<contributionVars, pool>>

CountdownInit ==
    /\ ContributionInit
    /\ ckStep = NOT_STARTED /\ ckTemp = NoTempData /\ fileSize = 0
    /\ pool = NoPool
    /\ \E durationInSeconds \in 1..MaxDuration :
         \E intervalInSeconds \in 1..MaxInterval :
           utility = [fn |-> "createExpirationCountdown",
                      arg |-> <<durationInSeconds, intervalInSeconds>>,
                      done |-> FALSE,
                      ret |-> Countdown(durationInSeconds, intervalInSeconds)]

CountdownNext ==
    \/ CountdownTick
    \/ CountdownExpire

\* setInterval calls the callback again and again for as long as the process
\* lives.
CountdownSpec ==
    CountdownInit /\ [][CountdownNext]_vars /\ WF_vars(CountdownNext)

\* C32: for every positive duration and positive interval the countdown
\* eventually signals that the time is up.
C32_Original == <>(utility.ret.expired)

\* C32: the expiration is signalled only when the remaining duration is
\* zero; a remaining duration below zero is never followed by the signal.
C32_ExpiredOnlyAtZero ==
    /\ utility.ret.expired => utility.ret.durationInSeconds = 0
    /\ utility.ret.durationInSeconds < 0 => ~utility.ret.expired

\* A countdown of 5 seconds by intervals of 2 has gone past zero without
\* signalling the expiration.
C32_Skipped ==
    /\ utility.arg = <<5, 2>>
    /\ utility.ret.durationInSeconds < 0
    /\ ~utility.ret.expired

(* ---------------------------------------------------------------------- *)
(* The steps of a run and of an attempt.                                    *)
(* ---------------------------------------------------------------------- *)
\* The steps whose action the current invocation has invoked.
ExecutedSteps == {S \in FlowSteps : Executed(S)}

\* Every call of the step S made by the current invocation has succeeded.
StepSucceeded(S) ==
    \A i \in DOMAIN log : StepOfOp(log[i].op) = S => log[i].ok

\* C33: in every run the steps whose action is invoked are consecutive in
\* the order download, compute, upload, verify, and a later step is invoked
\* only after the calls of the earlier one have succeeded; in a run that
\* reaches its end they are a suffix of that order: every step after an
\* invoked one is invoked, and verify is invoked whenever anything is.
C33_ContiguousSuffix ==
    /\ \A S \in ExecutedSteps : \A T \in ExecutedSteps :
         S < T => /\ \A U \in FlowSteps : (S < U /\ U < T) => U \in ExecutedSteps
                  /\ StepSucceeded(S)
    /\ pc = "done" =>
         /\ \A S \in ExecutedSteps : \A T \in FlowSteps : S < T => T \in ExecutedSteps
         /\ ExecutedSteps # {} => VERIFYING \in ExecutedSteps

\* A run resumed at COMPUTING has reached its end having invoked compute,
\* upload and verify, and not download.
C33_Witness ==
    /\ ~finalize /\ pc = "done" /\ StepIs(newParticipantData, COMPUTING)
    /\ ExecutedSteps = {COMPUTING, UPLOADING, VERIFYING}

\* The calls that must have succeeded before the verification is asked for.
CallsBeforeVerification == {"download", "compute", "finalize"}

\* C34: whenever the verification call is made, the download, the compute
\* and the finalize call of the upload have each succeeded earlier in the
\* attempt, in this run or in a run before it: no sequence of runs, crashes
\* and resumes skips a step.
C34_NoStepSkipped ==
    [][\A i \in DOMAIN log' :
         (i > Len(log) /\ log'[i].op = "verify") =>
             CallsBeforeVerification \subseteq attempt[finalize]]_vars

\* A run resumed at VERIFYING after a crash has made the verification call,
\* and the only call it made, the three steps having succeeded in runs
\* before it.
C34_Witness ==
    /\ ~finalize /\ StepIs(newParticipantData, VERIFYING)
    /\ pc = "done" /\ Count("verify") = 1 /\ Len(log) = 1
    /\ CallsBeforeVerification \subseteq attempt[FALSE]

\* The current invocation has executed compute successfully.
Recomputed == \E i \in CallsOf({"compute"}) : log[i].ok

\* C35: every part listed in a finalize call carries the completion token
\* of bytes of the artifact of the most recent compute of the attempt; and
\* a run that has executed compute resumes no upload: the upload identifier
\* of its calls is the one its own open call returned, and every part it
\* lists was transmitted by the run itself.
C35_PartsOfLatestArtifact ==
    /\ \A i \in CallsOf({"finalize"}) : \A a \in DOMAIN log[i].parts :
         log[i].parts[a].ETag = ETagOf(artifact[finalize], log[i].parts[a].PartNumber)
    /\ (Recomputed /\ pc \in AfterOpenPcs \cup AfterUploadPcs) =>
         /\ ~Resumed
         /\ \E o \in CallsOf({"open"}) :
              log[o].ok /\ \A i \in CallsOf(SessionOps) : log[i].id = log[o].id
         /\ \A i \in CallsOf({"finalize"}) : \A a \in DOMAIN log[i].parts :
              \E t \in CallsOf({"transmit"}) :
                 log[t].ok /\ log[t].part = log[i].parts[a].PartNumber

\* A run has executed compute a second time in the attempt, after a crash,
\* and its finalize call, with more than one part, has succeeded.
C35_Witness ==
    /\ ~finalize /\ Recomputed /\ artifact[FALSE] = 2
    /\ NumberOfParts(fileSize) > 1
    /\ \E i \in CallsOf({"finalize"}) : log[i].ok

\* The run was started without participant data, or on the step COMPLETED.
NothingToDo == ~newParticipantData.present \/ StepIs(newParticipantData, COMPLETED)

\* C36: a non-finalize run started on the step COMPLETED, or without
\* participant data, makes no call at all: none of download, compute, upload
\* and verify, and no step progress request; it leaves the checkpoint as it
\* is and reports no verdict.
C36_NothingToDo ==
    (~finalize /\ NothingToDo /\ pc # "idle") =>
        /\ log = <<>>
        /\ pc \notin {"failed"} \cup MultiPartPcs
        /\ verdict = "none"
        /\ newParticipantData.present => ckStep = newParticipantData.contributionStep

\* A non-finalize run on the step COMPLETED has reached its end.
C36_Witness ==
    /\ ~finalize /\ StepIs(newParticipantData, COMPLETED) /\ pc = "done" /\ log = <<>>

\* A non-finalize run without participant data has reached its end.
C36_WitnessAbsent ==
    /\ ~finalize /\ ~newParticipantData.present /\ runs > 0 /\ pc = "done" /\ log = <<>>

\* Calls that write the upload session to the participant document.
CheckpointWrites == {"storeUploadId", "storeChunk"}

\* C37: in a finalize run the upload always starts a fresh transfer session:
\* whatever upload session the participant document holds, the upload opens
\* a new one, works under the identifier just returned and transmits every
\* part of the file; and it writes neither the identifier nor any uploaded
\* part to the participant document, which stays as it was.
C37_FinalizeStartsFresh ==
    /\ [](finalize =>
            /\ ~Resumed
            /\ CallsOf(CheckpointWrites) = {}
            /\ pc \notin {"mpu_store_id", "mpu_store_chunk"}
            /\ pc \in AfterOpenPcs \cup AfterUploadPcs =>
                 /\ Count("open") = 1
                 /\ \A o \in CallsOf({"open"}) :
                      /\ log[o].ok
                      /\ HasUploadId(ckTemp) => log[o].id # ckTemp.uploadId
                      /\ \A i \in CallsOf(SessionOps) : log[i].id = log[o].id
            /\ \A i \in CallsOf({"finalize"}) : \A k \in 1..NumberOfParts(fileSize) :
                 \E t \in CallsOf({"transmit"}) : log[t].ok /\ log[t].part = k)
    /\ [][(finalize /\ pc # "idle") => ckTemp' = ckTemp]_vars

\* A finalize run, started on a participant document that holds an upload
\* session with a recorded part, has completed its own upload.
C37_Witness ==
    /\ finalize /\ pc = "done"
    /\ newParticipantData.present
    /\ HasUploadId(newParticipantData.tempContributionData)
    /\ Len(newParticipantData.tempContributionData.chunks) > 0
    /\ ckTemp = newParticipantData.tempContributionData
    /\ \E i \in CallsOf({"finalize"}) : log[i].ok

\* Program points of a run after its COMPUTING step.
AfterComputePcs ==
    {"progress_upload", "upload", "progress_verification", "verify", "done"} \cup MultiPartPcs

\* C38: in a run the contribution time and hash are stored at most once, and
\* only after the compute call of the run has succeeded; a run that has
\* executed compute and gone past the step has stored them exactly once;
\* the request that advances the checkpoint to UPLOADING comes after the
\* store has succeeded; so a checkpoint at UPLOADING or VERIFYING implies that
\* a time and hash were stored in the attempt.
C38_TimeAndHashStoredOnce ==
    /\ Count("storeTimeAndHash") <= 1
    /\ Count("storeTimeAndHash") <= Count("compute")
    /\ \A i \in CallsOf({"storeTimeAndHash"}) :
         /\ \E j \in CallsOf({"compute"}) : j < i /\ log[j].ok /\ log[j].end <= log[i].start
         /\ matchContributionHash = "matched"
    /\ (Count("compute") > 0 /\ pc \in AfterComputePcs) =>
         \E i \in CallsOf({"storeTimeAndHash"}) : log[i].ok
    /\ \A i \in CallsOf({"progress"}) :
         log[i].id = UPLOADING =>
            \E j \in CallsOf({"storeTimeAndHash"}) :
               j < i /\ log[j].ok /\ log[j].end <= log[i].start
    /\ ckStep \in {UPLOADING, VERIFYING} => "storeTimeAndHash" \in attempt[FALSE]

\* A run has computed, stored the time and hash and advanced the checkpoint
\* to UPLOADING.
C38_Witness ==
    /\ ~finalize /\ ckStep = UPLOADING /\ pc = "upload"
    /\ Count("compute") = 1 /\ Count("storeTimeAndHash") = 1
    /\ \E i \in CallsOf({"progress"}) : log[i].id = UPLOADING /\ log[i].ok

\* C39: for every negative number of milliseconds
\* getSecondsMinutesHoursFromMillis returns 0 <= hours < 24,
\* 0 <= minutes < 60 and 0 <= seconds < 60 with a negative days field, and
\* days * 86400 + hours * 3600 + minutes * 60 + seconds is floor(ms / 1000),
\* the largest whole number of seconds not above the argument.
C39_NegativeMillis ==
    (Applied("getSecondsMinutesHoursFromMillis") /\ utility.arg < 0) =>
        /\ utility.ret.hours \in 0..23
        /\ utility.ret.minutes \in 0..59
        /\ utility.ret.seconds \in 0..59
        /\ utility.ret.days < 0
        /\ SecondsOf(utility.ret) * 1000 <= utility.arg
        /\ utility.arg < SecondsOf(utility.ret) * 1000 + 1000

\* A deadline passed by one millisecond has been decomposed: one day back
\* and 23:59:59 forward.
C39_Witness ==
    /\ Applied("getSecondsMinutesHoursFromMillis")
    /\ utility.arg = 0 - 1
    /\ utility.ret = [seconds |-> 59, minutes |-> 59, hours |-> 23, days |-> 0 - 1]

====
